---- MODULE Spec2Model ----
(***************************************************************************)
(* Model of combine_code.py: main(root_dir, output_file) walks a directory *)
(* tree top-down with os.walk, prunes the directories named in             *)
(* EXCLUDE_DIRS, skips the files whose name ends with a member of          *)
(* EXCLUDE_EXTS, and appends a header and the decoded content of every     *)
(* other file to the output file.                                          *)
(*                                                                         *)
(* The file system is an input: a finite tree of nodes 1..NumNodes below   *)
(* the root (node 0).  Paths are sequences of components, texts are        *)
(* strings, and the bytes of a file are a sequence of byte tokens that the *)
(* text layer decodes (errors='ignore', universal newlines).  The output   *)
(* file lies outside the set of included files of the tree (the script's   *)
(* own call names it 'all_code_combined.txt', which the '.txt' filter      *)
(* skips).  Symbolic links and special files are not modelled.             *)
(***************************************************************************)
EXTENDS Integers, Sequences, FiniteSets, TLC

VARIABLES tree,       \* the source tree: node -> [name, parent, kind, ok, content]
          outfile,    \* the output file on disk: [exists, writable, data]
          pc,         \* position of main: start, walk, prune, files, header, copy, done, failed
          out,        \* the handle 'out' of the with-statement: none, open, closed
          stack,      \* os.walk: the directories still to be visited (paths)
          dirpath,    \* the triple yielded by os.walk
          dirnames,
          filenames,
          fi,         \* index of the for loop over filenames
          visited,    \* directories os.walk tried to list
          filtered,   \* files passed to should_include_file
          opened,     \* files main tried to open for reading, in order
          run,        \* number of the current call of main
          firstOut    \* the output file as the first call left it

vars == <<tree, outfile, pc, out, stack, dirpath, dirnames, filenames, fi,
          visited, filtered, opened, run, firstOut>>

-----------------------------------------------------------------------------
(* Bounds *)
NumNodes == 3
MaxFaults == 1
MaxRuns == 2

Nodes == 1..NumNodes
Root == 0

-----------------------------------------------------------------------------
(* The program's constants *)
EXCLUDE_DIRS == {"node_modules", "venv", "env", "__pycache__", ".git", ".next",
                 "dist", "build", "packages", ".turbo", ".cache"}

EXCLUDE_EXTS == {".json", ".pdf", ".txt"}

\* main('.', 'all_code_combined.txt'): the root the walk starts from
RootDir == <<".">>

-----------------------------------------------------------------------------
(* Inputs: names, contents *)
DirNames == {"src", "dist", "d.txt"}
FileNames == {"a.py", "n.txt", "b.TXT"}

\* the bytes of file n: a character of its own, then valid characters with a
\* CR LF pair, or a byte that is not valid UTF-8, a character and a lone CR
FileBytes(n) ==
    <<SubSeq("123456789", n, n)>> \o
        (IF n % 2 = 1 THEN <<"x", "\r", "\n", "y">> ELSE <<"BAD", "z", "\r">>)

\* what the output file holds before the first run
OldData == "old"

-----------------------------------------------------------------------------
(* Pure functions *)

\* str.endswith
EndsWith(s, suffix) ==
    /\ Len(s) >= Len(suffix)
    /\ SubSeq(s, Len(s) - Len(suffix) + 1, Len(s)) = suffix

\* variant: all() written for any()
should_include_file_all(filename) ==
    ~ \A ext \in EXCLUDE_EXTS : EndsWith(filename, ext)

should_include_file(filename) ==
    ~ \E ext \in EXCLUDE_EXTS : EndsWith(filename, ext)

\* os.path.join of a directory path and one component
Join(path, name) == Append(path, name)

\* length of the longest common prefix of two paths
RECURSIVE CommonLen(_, _)
CommonLen(p, q) ==
    IF p = <<>> \/ q = <<>> \/ Head(p) # Head(q) THEN 0
    ELSE 1 + CommonLen(Tail(p), Tail(q))

\* the components of os.path.relpath(path, start)
RelParts(path, start) ==
    LET c == CommonLen(path, start)
        ups == [k \in 1..(Len(start) - c) |-> ".."]
        rest == SubSeq(path, c + 1, Len(path))
    IN IF ups \o rest = <<>> THEN <<".">> ELSE ups \o rest

\* components joined by os.sep
RECURSIVE PathStr(_)
PathStr(parts) ==
    IF parts = <<>> THEN ""
    ELSE IF Len(parts) = 1 THEN parts[1]
    ELSE parts[1] \o "/" \o PathStr(Tail(parts))

\* variant: os.path.basename written for os.path.relpath
RelPath_basename(path, start) == path[Len(path)]

RelPath(path, start) == PathStr(RelParts(path, start))

\* variant: one newline after the header line
Header_oneline(rel_path) == "\n\n# ==== " \o rel_path \o " ====\n"

\* f"\n\n# ==== {rel_path} ====\n\n"
Header(rel_path) == "\n\n# ==== " \o rel_path \o " ====\n\n"

\* f.read() of a file opened with encoding='utf-8', errors='ignore' and the
\* default newline handling: undecodable bytes are dropped, then "\r\n" and
\* "\r" are translated to "\n"
RECURSIVE DropBad(_)
DropBad(bytes) ==
    IF bytes = <<>> THEN <<>>
    ELSE IF Head(bytes) = "BAD" THEN DropBad(Tail(bytes))
    ELSE <<Head(bytes)>> \o DropBad(Tail(bytes))

RECURSIVE Newlines(_)
Newlines(chars) ==
    IF chars = <<>> THEN ""
    ELSE IF Head(chars) = "\r"
         THEN IF Len(chars) >= 2 /\ chars[2] = "\n"
              THEN "\n" \o Newlines(Tail(Tail(chars)))
              ELSE "\n" \o Newlines(Tail(chars))
    ELSE Head(chars) \o Newlines(Tail(chars))

Decode(bytes) == Newlines(DropBad(bytes))

-----------------------------------------------------------------------------
(* The file system *)

\* the children of a directory, in the order the enumeration yields them
Children(t, d) == SelectSeq([k \in 1..NumNodes |-> k], LAMBDA n : t[n].parent = d)

\* the node a path below (or at) the root denotes; -1 when there is none
RECURSIVE ResolveFrom(_, _, _)
ResolveFrom(t, d, parts) ==
    IF parts = <<>> THEN d
    ELSE LET m == {n \in Nodes : t[n].parent = d /\ t[n].name = Head(parts)}
         IN IF m = {} \/ t[d].kind # "dir" THEN -1
            ELSE ResolveFrom(t, CHOOSE n \in m : TRUE, Tail(parts))

Resolve(t, path) ==
    IF CommonLen(path, RootDir) = Len(RootDir)
    THEN ResolveFrom(t, Root, SubSeq(path, Len(RootDir) + 1, Len(path)))
    ELSE -1

\* os.scandir succeeds on the directory
Listable(t, n) == n # -1 /\ t[n].kind = "dir" /\ t[n].ok

\* open(path, 'r') succeeds on the file
Openable(t, n) == n # -1 /\ t[n].kind = "file" /\ t[n].ok

NamesOf(t, nodes) == [k \in 1..Len(nodes) |-> t[nodes[k]].name]

Reverse(s) == [k \in 1..Len(s) |-> s[Len(s) + 1 - k]]

\* a well-formed tree: parents are directories and come first, siblings are
\* numbered in the order of enumeration and have distinct names
TreeOK(name, parent) ==
    /\ \A n \in Nodes : parent[n] < n
    /\ \A n \in Nodes : parent[n] # Root => name[parent[n]] \in DirNames
    /\ \A n, m \in Nodes : n < m => parent[n] <= parent[m]
    /\ \A n, m \in Nodes : (n # m /\ parent[n] = parent[m]) => name[n] # name[m]

-----------------------------------------------------------------------------
(* Initial state: before the first call of main.  A node in faults is a     *)
(* directory that cannot be listed or a file that cannot be opened; a root *)
(* in faults stands for a root that is missing or cannot be listed.        *)
\* the output file before the first call: absent, present with old data, or
\* at a path that cannot be opened for writing
OutFiles == {[exists |-> FALSE, writable |-> TRUE, data |-> ""],
             [exists |-> TRUE, writable |-> TRUE, data |-> OldData],
             [exists |-> FALSE, writable |-> FALSE, data |-> ""]}

InitWith(names, outfiles) ==
    /\ \E name \in [Nodes -> names] :
       \E parent \in [Nodes -> 0..(NumNodes - 1)] :
          /\ TreeOK(name, parent)
          /\ \E faults \in {F \in SUBSET (0..NumNodes) : Cardinality(F) <= MaxFaults} :
                tree = [n \in 0..NumNodes |->
                          IF n = Root
                          THEN [name |-> RootDir[Len(RootDir)], parent |-> -1, kind |-> "dir",
                                ok |-> (Root \notin faults), content |-> <<>>]
                          ELSE [name |-> name[n], parent |-> parent[n],
                                kind |-> IF name[n] \in DirNames THEN "dir" ELSE "file",
                                ok |-> (n \notin faults),
                                content |-> IF name[n] \in DirNames THEN <<>>
                                            ELSE FileBytes(n)]]
    /\ outfile \in outfiles
    /\ pc = "start"
    /\ out = "none"
    /\ stack = <<>>
    /\ dirpath = <<>>
    /\ dirnames = <<>>
    /\ filenames = <<>>
    /\ fi = 1
    /\ visited = {}
    /\ filtered = {}
    /\ opened = <<>>
    /\ run = 1
    /\ firstOut = [exists |-> FALSE, writable |-> TRUE, data |-> ""]

Init == InitWith(DirNames \cup FileNames, OutFiles)

\* the runs of the termination property: one directory name that is pruned and
\* one that is not, one file name that is filtered out and one that is not
InitFair == InitWith({"src", "dist", "a.py", "n.txt"}, OutFiles)

-----
(* Actions *)

\* variant: the output file opened with mode 'a'
OpenOut_append ==
    /\ pc = "start"
    /\ IF outfile.writable
       THEN /\ outfile' = [outfile EXCEPT !.exists = TRUE]
            /\ out' = "open"
            /\ stack' = <<RootDir>>
            /\ pc' = "walk"
       ELSE /\ pc' = "failed"
            /\ UNCHANGED <<outfile, out, stack>>
    /\ UNCHANGED <<tree, dirpath, dirnames, filenames, fi, visited, filtered,
                   opened, run, firstOut>>

\* with open(output_file, 'w', encoding='utf-8') as out:
\*     for ... in os.walk(root_dir):
OpenOut ==
    /\ pc = "start"
    /\ IF outfile.writable
       THEN /\ outfile' = [outfile EXCEPT !.exists = TRUE, !.data = ""]
            /\ out' = "open"
            /\ stack' = <<RootDir>>
            /\ pc' = "walk"
       ELSE /\ pc' = "failed"
            /\ UNCHANGED <<outfile, out, stack>>
    /\ UNCHANGED <<tree, dirpath, dirnames, filenames, fi, visited, filtered,
                   opened, run, firstOut>>

\* variant: os.walk called with an onerror that raises
WalkNext_raise ==
    /\ pc = "walk"
    /\ stack # <<>>
    /\ LET top == stack[Len(stack)]
           d == Resolve(tree, top)
       IN /\ stack' = SubSeq(stack, 1, Len(stack) - 1)
          /\ visited' = visited \cup {d}
          /\ IF Listable(tree, d)
             THEN LET ch == Children(tree, d)
                  IN /\ dirpath' = top
                     /\ dirnames' = NamesOf(tree, SelectSeq(ch, LAMBDA n : tree[n].kind = "dir"))
                     /\ filenames' = NamesOf(tree, SelectSeq(ch, LAMBDA n : tree[n].kind # "dir"))
                     /\ pc' = "prune"
                     /\ UNCHANGED out
             ELSE /\ pc' = "failed"
                  /\ out' = "closed"
                  /\ UNCHANGED <<dirpath, dirnames, filenames>>
    /\ UNCHANGED <<tree, outfile, fi, filtered, opened, run, firstOut>>

\* os.walk: take the next directory and list it; a directory that cannot be
\* listed is passed over in silence (onerror is None)
WalkNext ==
    /\ pc = "walk"
    /\ stack # <<>>
    /\ LET top == stack[Len(stack)]
           d == Resolve(tree, top)
       IN /\ stack' = SubSeq(stack, 1, Len(stack) - 1)
          /\ visited' = visited \cup {d}
          /\ IF Listable(tree, d)
             THEN LET ch == Children(tree, d)
                  IN /\ dirpath' = top
                     /\ dirnames' = NamesOf(tree, SelectSeq(ch, LAMBDA n : tree[n].kind = "dir"))
                     /\ filenames' = NamesOf(tree, SelectSeq(ch, LAMBDA n : tree[n].kind # "dir"))
                     /\ pc' = "prune"
             ELSE UNCHANGED <<dirpath, dirnames, filenames, pc>>
    /\ UNCHANGED <<tree, outfile, out, fi, filtered, opened, run, firstOut>>

\* os.walk is exhausted: the for loop ends and the with-statement closes out
WalkEnd ==
    /\ pc = "walk"
    /\ stack = <<>>
    /\ out' = "closed"
    /\ pc' = "done"
    /\ UNCHANGED <<tree, outfile, stack, dirpath, dirnames, filenames, fi,
                   visited, filtered, opened, run, firstOut>>

\* variant: dirnames = [...], which rebinds the name and leaves the list of
\* os.walk as it was
Prune_rebind ==
    /\ pc = "prune"
    /\ fi' = 1
    /\ pc' = "files"
    /\ UNCHANGED <<tree, outfile, out, stack, dirpath, dirnames, filenames, visited,
                   filtered, opened, run, firstOut>>

\* dirnames[:] = [d for d in dirnames if d not in EXCLUDE_DIRS]
Prune ==
    /\ pc = "prune"
    /\ dirnames' = SelectSeq(dirnames, LAMBDA d : d \notin EXCLUDE_DIRS)
    /\ fi' = 1
    /\ pc' = "files"
    /\ UNCHANGED <<tree, outfile, out, stack, dirpath, filenames, visited,
                   filtered, opened, run, firstOut>>

\* for filename in filenames: if should_include_file(filename):
FilterFile ==
    /\ pc = "files"
    /\ fi <= Len(filenames)
    /\ filtered' = filtered \cup {Resolve(tree, Join(dirpath, filenames[fi]))}
    /\ IF should_include_file(filenames[fi])
       THEN pc' = "header" /\ fi' = fi
       ELSE pc' = "files" /\ fi' = fi + 1
    /\ UNCHANGED <<tree, outfile, out, stack, dirpath, dirnames, filenames,
                   visited, opened, run, firstOut>>

\* variant: the header is held back until the file has been opened
WriteHeader_late ==
    /\ pc = "header"
    /\ LET f == Resolve(tree, Join(dirpath, filenames[fi]))
           rel_path == RelPath(Join(dirpath, filenames[fi]), RootDir)
       IN outfile' = IF Openable(tree, f)
                     THEN [outfile EXCEPT !.data = @ \o Header(rel_path)]
                     ELSE outfile
    /\ pc' = "copy"
    /\ UNCHANGED <<tree, out, stack, dirpath, dirnames, filenames, fi, visited,
                   filtered, opened, run, firstOut>>

\* rel_path = os.path.relpath(os.path.join(dirpath, filename), root_dir)
\* out.write(f"\n\n# ==== {rel_path} ====\n\n")
WriteHeader ==
    /\ pc = "header"
    /\ LET rel_path == RelPath(Join(dirpath, filenames[fi]), RootDir)
       IN outfile' = [outfile EXCEPT !.data = @ \o Header(rel_path)]
    /\ pc' = "copy"
    /\ UNCHANGED <<tree, out, stack, dirpath, dirnames, filenames, fi, visited,
                   filtered, opened, run, firstOut>>

\* variant: the open wrapped in try/except OSError: continue
CopyFile_skip ==
    /\ pc = "copy"
    /\ LET f == Resolve(tree, Join(dirpath, filenames[fi]))
       IN /\ opened' = Append(opened, f)
          /\ outfile' = IF Openable(tree, f)
                        THEN [outfile EXCEPT !.data = @ \o Decode(tree[f].content)]
                        ELSE outfile
          /\ fi' = fi + 1
          /\ pc' = "files"
    /\ UNCHANGED <<tree, out, stack, dirpath, dirnames, filenames, visited, filtered,
                   run, firstOut>>

\* variant: out opened without a with-statement, so an exception leaves it open
CopyFile_leak ==
    /\ pc = "copy"
    /\ LET f == Resolve(tree, Join(dirpath, filenames[fi]))
       IN /\ opened' = Append(opened, f)
          /\ IF Openable(tree, f)
             THEN /\ outfile' = [outfile EXCEPT !.data = @ \o Decode(tree[f].content)]
                  /\ fi' = fi + 1
                  /\ pc' = "files"
             ELSE /\ pc' = "failed"
                  /\ UNCHANGED <<outfile, fi>>
    /\ UNCHANGED <<tree, out, stack, dirpath, dirnames, filenames, visited, filtered,
                   run, firstOut>>

\* with open(os.path.join(dirpath, filename), 'r', ...) as f: out.write(f.read())
\* an open that fails raises; the with-statement closes out on the way up
CopyFile ==
    /\ pc = "copy"
    /\ LET f == Resolve(tree, Join(dirpath, filenames[fi]))
       IN /\ opened' = Append(opened, f)
          /\ IF Openable(tree, f)
             THEN /\ outfile' = [outfile EXCEPT !.data = @ \o Decode(tree[f].content)]
                  /\ fi' = fi + 1
                  /\ pc' = "files"
                  /\ UNCHANGED out
             ELSE /\ out' = "closed"
                  /\ pc' = "failed"
                  /\ UNCHANGED <<outfile, fi>>
    /\ UNCHANGED <<tree, stack, dirpath, dirnames, filenames, visited, filtered,
                   run, firstOut>>

\* the for loop over filenames ends and os.walk resumes: the directories left
\* in dirnames are queued, the first of them to be visited next
Descend ==
    /\ pc = "files"
    /\ fi > Len(filenames)
    /\ stack' = stack \o Reverse([k \in 1..Len(dirnames) |-> Join(dirpath, dirnames[k])])
    /\ pc' = "walk"
    /\ UNCHANGED <<tree, outfile, out, dirpath, dirnames, filenames, fi, visited,
                   filtered, opened, run, firstOut>>

\* main is called again with the same arguments on the file system as it is
Rerun ==
    /\ pc \in {"done", "failed"}
    /\ run < MaxRuns
    /\ run' = run + 1
    /\ firstOut' = IF run = 1 THEN outfile ELSE firstOut
    /\ pc' = "start"
    /\ out' = "none"
    /\ stack' = <<>>
    /\ dirpath' = <<>>
    /\ dirnames' = <<>>
    /\ filenames' = <<>>
    /\ fi' = 1
    /\ visited' = {}
    /\ filtered' = {}
    /\ opened' = <<>>
    /\ UNCHANGED <<tree, outfile>>

Next ==
    \/ OpenOut
    \/ WalkNext
    \/ WalkEnd
    \/ Prune
    \/ FilterFile
    \/ WriteHeader
    \/ CopyFile
    \/ Descend
    \/ Rerun

Spec == Init /\ [][Next]_vars

\* main runs to its end: every step of the single thread is eventually taken
FairSpec == InitFair /\ [][Next]_vars /\ WF_vars(Next)

TypeOK ==
    /\ pc \in {"start", "walk", "prune", "files", "header", "copy", "done", "failed"}
    /\ out \in {"none", "open", "closed"}
    /\ run \in 1..MaxRuns
    /\ fi \in 1..(NumNodes + 1)
    /\ visited \subseteq 0..NumNodes
    /\ filtered \subseteq Nodes

-----------------------------------------------------------------------------
(* The tree as the properties speak of it *)

Terminal == {"done", "failed"}

IsFile(n) == tree[n].kind = "file"
IsDir(n) == tree[n].kind = "dir"

\* the directories below the root on the way down to node n
RECURSIVE Ancestors(_)
Ancestors(n) ==
    IF n = Root \/ tree[n].parent = Root THEN {}
    ELSE {tree[n].parent} \cup Ancestors(tree[n].parent)

Depth(n) == Cardinality(Ancestors(n)) + 1

\* the names from the root down to node n
RECURSIVE NodePath(_)
NodePath(n) == IF n = Root THEN <<>> ELSE Append(NodePath(tree[n].parent), tree[n].name)

RelOf(n) == PathStr(NodePath(n))

\* a directory named in EXCLUDE_DIRS lies on the way from the root to n
UnderExcluded(n) == \E a \in Ancestors(n) : tree[a].name \in EXCLUDE_DIRS

\* the name of n ends with a member of EXCLUDE_EXTS
ExtExcluded(n) == \E ext \in EXCLUDE_EXTS : EndsWith(tree[n].name, ext)

\* every directory from the root down to n can be listed
PathListable(n) == tree[Root].ok /\ \A a \in Ancestors(n) : tree[a].ok

HeaderLine(n) == "# ==== " \o RelOf(n) \o " ===="

RecordOf(n) == "\n\n" \o HeaderLine(n) \o "\n\n" \o Decode(tree[n].content)

\* number of places where sub occurs in s
Count(sub, s) ==
    Cardinality({i \in 1..(Len(s) - Len(sub) + 1) : SubSeq(s, i, i + Len(sub) - 1) = sub})

RECURSIVE Records(_)
Records(fs) == IF fs = <<>> THEN "" ELSE RecordOf(Head(fs)) \o Records(Tail(fs))

Range(sq) == {sq[k] : k \in 1..Len(sq)}

\* file n has exactly one record in the output, under exactly one header line
OnceInOutput(n) ==
    /\ Count("\n" \o HeaderLine(n) \o "\n", outfile.data) = 1
    /\ Count(RecordOf(n), outfile.data) = 1

NoRecord(n) == Count(HeaderLine(n), outfile.data) = 0

-----------------------------------------------------------------------------
(* C1 *)

-----------------------------------------------------------------------------
(* C2 *)

\* C2: a directory below the root named in EXCLUDE_DIRS is never queued and
\* never visited, at any depth, and no file beneath it is passed to
\* should_include_file, opened, or given a record in the output.
C2_Pruned ==
    /\ \A k \in 1..Len(stack) :
          LET d == Resolve(tree, stack[k])
          IN d \in Nodes => (tree[d].name \notin EXCLUDE_DIRS /\ ~UnderExcluded(d))
    /\ \A d \in Nodes :
          (tree[d].name \in EXCLUDE_DIRS /\ IsDir(d)) =>
              /\ d \notin visited
              /\ (pc \in {"prune", "files", "header", "copy"} => Resolve(tree, dirpath) # d)
    /\ \A n \in Nodes :
          UnderExcluded(n) =>
              /\ n \notin visited
              /\ n \notin filtered
              /\ n \notin Range(opened)
              /\ NoRecord(n)

C2_Witness ==
    /\ pc = "done"
    /\ \E d \in Nodes :
          /\ IsDir(d) /\ tree[d].name \in EXCLUDE_DIRS
          /\ tree[d].parent \in visited /\ PathListable(d)
          /\ \E n \in Nodes : IsFile(n) /\ ~ExtExcluded(n) /\ tree[n].ok
                              /\ d \in Ancestors(n) /\ tree[n].parent # d
                              /\ NoRecord(n)

-----------------------------------------------------------------------------
(* C3 *)

\* C3: a file whose name ends with a member of EXCLUDE_EXTS is never opened and
\* gets no header in the output; the filter is on file names only, so a
\* directory with such a name is still visited when the walk completes.
C3_Extensions ==
    /\ \A n \in Nodes :
          (IsFile(n) /\ ExtExcluded(n)) => (n \notin Range(opened) /\ NoRecord(n))
    /\ pc = "done" =>
          \A d \in Nodes :
              (IsDir(d) /\ ExtExcluded(d) /\ tree[d].name \notin EXCLUDE_DIRS
               /\ ~UnderExcluded(d) /\ PathListable(d)) => d \in visited

C3_Witness ==
    /\ pc = "done"
    /\ \E n \in Nodes : IsFile(n) /\ ExtExcluded(n) /\ n \in filtered
    /\ \E d \in Nodes : /\ IsDir(d) /\ ExtExcluded(d) /\ d \in visited
                        /\ \E m \in Nodes : tree[m].parent = d /\ tree[m].name = "b.TXT"
                                            /\ OnceInOutput(m)

-----------------------------------------------------------------------------
(* C4 *)

\* the bytes of a file decoded as UTF-8 with the undecodable bytes dropped, and
\* nothing else done to them
RECURSIVE Chars(_)
Chars(chars) == IF chars = <<>> THEN "" ELSE Head(chars) \o Chars(Tail(chars))

RECURSIVE RecordsVerbatim(_)
RecordsVerbatim(fs) ==
    IF fs = <<>> THEN ""
    ELSE "\n\n" \o HeaderLine(Head(fs)) \o "\n\n" \o Chars(DropBad(tree[Head(fs)].content))
            \o RecordsVerbatim(Tail(fs))

\* C4 as stated: when main completes, the output file is exactly the records
\* of the files that were opened, in that order, each record ending with the
\* decoded content of the file, unmodified.
C4_AsStated ==
    pc = "done" => (outfile.exists /\ outfile.data = RecordsVerbatim(opened))

\* C4 amended: when main completes, the output file exists and is exactly the
\* records of the files that were opened, in that order: two newlines, the
\* header line, two newlines, then the text read from the file, which is its
\* decoded content with every CR LF and every lone CR turned into LF; nothing
\* else, so no included file means an empty output file.
C4_Format ==
    pc = "done" =>
        /\ outfile.exists
        /\ outfile.data = Records(opened)
        /\ \A k \in 1..Len(opened) : IsFile(opened[k])
        /\ (opened = <<>> => outfile.data = "")

C4_Witness ==
    /\ pc = "done"
    /\ Len(opened) >= 2
    /\ \E k \in 1..Len(opened) : "BAD" \in Range(tree[opened[k]].content)
    /\ \E k \in 1..Len(opened) : "\n" \in Range(tree[opened[k]].content)
    /\ outfile.data # ""

-----------------------------------------------------------------------------
(* C5 *)

-----------------------------------------------------------------------------
(* C6 *)

\* C6: an included file that cannot be opened is not skipped: the attempt to
\* open it ends the run in the failed state, and no file that was not yet
\* reached gets a header or content in the output.
C6_Unreadable ==
    /\ \A k \in 1..Len(opened) :
          ~Openable(tree, opened[k]) => (pc = "failed" /\ k = Len(opened))
    /\ (pc = "failed" /\ out # "none") =>
          /\ opened # <<>>
          /\ ~Openable(tree, opened[Len(opened)])
          /\ \A n \in Nodes : (IsFile(n) /\ n \notin Range(opened)) => NoRecord(n)

C6_Witness ==
    /\ pc = "failed"
    /\ out = "closed"
    /\ \E n \in Nodes : /\ IsFile(n) /\ ~ExtExcluded(n) /\ ~UnderExcluded(n)
                        /\ PathListable(n) /\ tree[n].ok
                        /\ n \notin Range(opened) /\ NoRecord(n)

-----------------------------------------------------------------------------
(* C7 *)

\* C7: a later run of main on the unchanged tree leaves the output file as the
\* first run left it, whatever the output file held when the run began.
C7_Rerun ==
    (run > 1 /\ pc \in Terminal) => outfile = firstOut

C7_Witness ==
    /\ run > 1
    /\ pc = "done"
    /\ Len(opened) >= 2
    /\ firstOut.data # ""
    /\ outfile = firstOut

-----------------------------------------------------------------------------
(* C8 *)

\* C8: no step of a run changes the source tree; opening the output file
\* creates it empty or truncates it, and every other step leaves the output
\* file as it is or appends to it.
C8_Frame ==
    [][/\ tree' = tree
       /\ (pc = "start" /\ pc' = "walk") => (outfile'.exists /\ outfile'.data = "")
       /\ (pc = "start" /\ pc' = "failed") => outfile' = outfile
       /\ pc # "start" =>
             /\ outfile'.exists = outfile.exists
             /\ Len(outfile'.data) >= Len(outfile.data)
             /\ SubSeq(outfile'.data, 1, Len(outfile.data)) = outfile.data]_vars

C8_Witness ==
    /\ run > 1
    /\ pc = "walk"
    /\ firstOut.data # ""
    /\ outfile.data = ""
    /\ visited = {}

-----------------------------------------------------------------------------
(* C9 *)

\* every directory the walk has to reach has been reached, and every file
\* that was enumerated and passes the filter has been appended
Completed ==
    /\ stack = <<>>
    /\ \A d \in Nodes : (IsDir(d) /\ tree[d].name \notin EXCLUDE_DIRS
                         /\ ~UnderExcluded(d) /\ PathListable(d)) => d \in visited
    /\ Root \in visited
    /\ \A n \in Nodes : (IsFile(n) /\ ~ExtExcluded(n) /\ ~UnderExcluded(n)
                         /\ PathListable(n)) => (n \in Range(opened) /\ OnceInOutput(n))

-----------------------------------------------------------------------------
(* C10 *)

\* C10: the header of a file is in the output before the file is opened, so a
\* run that fails on a file it cannot open leaves the complete records of the
\* files opened before it, then the header of that file, and nothing after.
C10_HeaderFirst ==
    /\ pc = "copy" =>
          LET f == Resolve(tree, Join(dirpath, filenames[fi]))
          IN /\ f \notin Range(opened)
             /\ outfile.data = Records(opened) \o "\n\n" \o HeaderLine(f) \o "\n\n"
    /\ (pc = "failed" /\ out # "none") =>
          /\ opened # <<>>
          /\ outfile.data = Records(SubSeq(opened, 1, Len(opened) - 1))
                              \o "\n\n" \o HeaderLine(opened[Len(opened)]) \o "\n\n"

C10_Witness ==
    /\ pc = "failed"
    /\ out = "closed"
    /\ Len(opened) >= 2
    /\ Depth(opened[Len(opened)]) >= 2
====
